---- MODULE Spec2Model ----
(***************************************************************************)
(* Task-processing workflow of the Tweetscape Indexer.                     *)
(*                                                                         *)
(*   - processing queue scenario   (docs: "Processing queue")              *)
(*   - AddSeedAccountToStreamWorkflow state machine (on-demand-indexer.ts) *)
(*   - task status reported by GET /task/{taskId}    (indexer-api.ts)      *)
(*   - tweet indexing, range bookkeeping, graph writes                     *)
(*                                            (backend-behavior.md)        *)
(*                                                                         *)
(* The Task Store transition guards, the queue consumer's ownership check  *)
(* and the Range Tracker mutators have no code in the snapshot; they are   *)
(* modelled from the specification (sections 4.1, 4.3, 5).                 *)
(***************************************************************************)
EXTENDS Integers, Sequences, FiniteSets, TLC

\* ------------------------------------------------------------------ bounds
MaxInst == 2        \* workflow instances (queue deliveries) in one run
MaxPostId == 5      \* tweet IDs that can exist upstream: 1..MaxPostId
PageSize == 2       \* items per timeline page (the code pulls 100)
MaxReset == 1       \* furthest rate limit reset, in time units from the error
MaxVersion == 2     \* snapshots of the upstream properties of a user or tweet
ChunkSize == 2      \* items per chunk of bulkWrites (the code takes 100)
MaxBatch == 3       \* tweets in a batch handed to the upsert engine
MaxRetries == 1     \* times the write of a chunk is tried again

\* ------------------------------------------------------- program constants
WorkflowTimeout == 60          \* minutes, AddSeedAccountToStreamWorkflow
UpsertTwitterAccountTimeout == 5
AddSeedAccountToStreamTimeout == 5
IndexTweetsFromAccountTimeout == 20
IndexFollowingTimeout == 5
RateLimitWindow == 15          \* minutes until the Twitter rate limit resets

\* Time is counted in rate-limit waits.  One pass through the four Lambda
\* steps is capped by the sum of their timeouts, so the workflow can only
\* exceed its own timeout once it has entered this many waits.
StepsTimeout ==
    UpsertTwitterAccountTimeout + AddSeedAccountToStreamTimeout
        + IndexTweetsFromAccountTimeout + IndexFollowingTimeout
TimeoutWaits == ((WorkflowTimeout - StepsTimeout) \div RateLimitWindow) + 1

Tasks == {"t1", "t2"}
TaskNo(t) == IF t = "t1" THEN 1 ELSE 2   \* task IDs are handed out in order
Instances == 1..MaxInst
Accounts == {"a1", "a2"}
PostIds == 1..MaxPostId
Versions == 1..MaxVersion

\* Account lists a seeder can submit; the empty list is malformed.
AccountLists == {<<>>, <<"a1">>, <<"a1", "a2">>}
AnyAccountList(l) == TRUE
ValidAccountList(l) == Len(l) > 0

\* Upstream data: who posted a tweet, and which tweet it references (0: none).
Author(p) == IF p = 3 THEN "a2" ELSE "a1"
Referenced(p) == IF p = 4 THEN 2 ELSE IF p = 5 THEN 3 ELSE 0

Min(S) == CHOOSE x \in S : \A y \in S : x <= y
Max(S) == CHOOSE x \in S : \A y \in S : x >= y

\* ------------------------------------------------------------ task status
\* "queued", "processing" and "done" are the marks of the task database;
\* the status model of GET /task/{taskId} adds the unsuccessful endings of
\* an execution.
TerminalStatuses == {"done", "failed", "TIMED_OUT", "ABORTED"}
Statuses == {"none", "queued", "processing"} \cup TerminalStatuses

\* Task Store mutators: the new status, or "IllegalTransitionError".
markProcessing(s) ==
    IF s = "queued" THEN "processing" ELSE "IllegalTransitionError"
markDoneAnyway(s) == "done"
markDone(s) ==
    IF s = "processing" THEN "done" ELSE "IllegalTransitionError"
markFailed(s) ==
    IF s = "processing" THEN "failed" ELSE "IllegalTransitionError"

\* ------------------------------------------------------------ graph store
\* Nodes and relationships are kept as bags (key -> number of copies), so
\* that a duplicate is a state the model can be in.
NodeKeys == {<<"Account", a>> : a \in Accounts} \cup {<<"Tweet", p>> : p \in PostIds}
RelKeys ==
    {<<"POSTED", Author(p), p>> : p \in PostIds}
        \cup {<<"REFERENCED", p, Referenced(p)>> : p \in {q \in PostIds : Referenced(q) # 0}}
\* props: the snapshot the stored properties of a node were taken from
\* (0: the node has no properties stored).
EmptyGraph == [nodes |-> [k \in NodeKeys |-> 0], rels |-> [k \in RelKeys |-> 0],
               props |-> [k \in NodeKeys |-> 0]]

\* CREATE instead of MERGE: one more copy of the node every time.
createNode(g, k) ==
    [g EXCEPT !.nodes[k] = IF @ < 2 THEN @ + 1 ELSE @]

createRelationship(g, k) ==
    [g EXCEPT !.rels[k] = IF @ < 2 THEN @ + 1 ELSE @]

\* MERGE: creates the node (relationship) only when it is not there yet.
upsertNode(g, k) ==
    IF g.nodes[k] = 0 THEN [g EXCEPT !.nodes[k] = 1] ELSE g
upsertRelationship(g, k) ==
    IF g.rels[k] = 0 THEN [g EXCEPT !.rels[k] = 1] ELSE g

RECURSIVE upsertNodes(_, _)
upsertNodes(g, ks) ==
    IF ks = {} THEN g
    ELSE LET k == CHOOSE x \in ks : TRUE
         IN upsertNodes(upsertNode(g, k), ks \ {k})
RECURSIVE upsertRelationships(_, _)
upsertRelationships(g, ks) ==
    IF ks = {} THEN g
    ELSE LET k == CHOOSE x \in ks : TRUE
         IN upsertRelationships(upsertRelationship(g, k), ks \ {k})

\* A pulled page with its includes: the tweets, the tweets they reference
\* and the users of both.
ReferencedTweets(page) == {Referenced(p) : p \in page} \ {0}
TweetUsers(page) == {Author(p) : p \in page \cup ReferencedTweets(page)}

\* An update that stamps every node in the store.
setPropertiesOfAll(g, ks, v) ==
    [g EXCEPT !.props = [k \in NodeKeys |-> IF g.nodes[k] > 0 THEN v ELSE @[k]]]
\* "Adds or updates": the properties given replace the stored ones.
setProperties(g, ks, v) ==
    [g EXCEPT !.props = [k \in NodeKeys |-> IF k \in ks THEN v ELSE @[k]]]

addUsers(g, users, v) ==
    LET ks == {<<"Account", a>> : a \in users}
    IN setProperties(upsertNodes(g, ks), ks, v)
addTweetsFrom(g, tweets, v) ==
    LET ks == {<<"Tweet", p>> : p \in tweets}
        withTweets == setProperties(upsertNodes(g, ks), ks, v)
        withAuthors == upsertNodes(withTweets, {<<"Account", Author(p)>> : p \in tweets})
        withPosted == upsertRelationships(withAuthors,
                          {<<"POSTED", Author(p), p>> : p \in tweets})
        refs == {p \in tweets : Referenced(p) # 0}
        withRefNodes == upsertNodes(withPosted, {<<"Tweet", Referenced(p)>> : p \in refs})
    IN upsertRelationships(withRefNodes,
                           {<<"REFERENCED", p, Referenced(p)>> : p \in refs})

\* Pushes a pulled page into the graph: users, referenced tweets, tweets.
bulkWrite(g, page, v) ==
    LET withUsers == addUsers(g, TweetUsers(page), v)
        withReferenced == addTweetsFrom(withUsers, ReferencedTweets(page), v)
    IN addTweetsFrom(withReferenced, page, v)

\* ------------------------------------------------------------ bulkWrites
Range(s) == {s[n] : n \in DOMAIN s}
RECURSIVE Distinct(_)
Distinct(s) ==
    IF s = <<>> THEN <<>>
    ELSE LET front == Distinct(SubSeq(s, 1, Len(s) - 1))
         IN IF s[Len(s)] \in Range(front) THEN front ELSE Append(front, s[Len(s)])
RECURSIVE WithIncludes(_)
WithIncludes(tweets) ==
    IF tweets = <<>> THEN <<>>
    ELSE LET p == Head(tweets)
         IN <<p>> \o (IF Referenced(p) # 0 THEN <<Referenced(p)>> ELSE <<>>)
                 \o WithIncludes(Tail(tweets))
\* The arrays of a batch of tweets: the users of the tweets and of the
\* tweets they reference, and the referenced tweets.
UsersIn(tweets) ==
    LET all == WithIncludes(tweets)
    IN Distinct([n \in DOMAIN all |-> Author(all[n])])
ReferencedIn(tweets) ==
    LET refs == SelectSeq(tweets, LAMBDA p : Referenced(p) # 0)
    IN Distinct([n \in DOMAIN refs |-> Referenced(refs[n])])

\* Splits a given array into chunks of ChunkSize items.
NumChunks(items) == (Len(items) + ChunkSize - 1) \div ChunkSize
\* Every chunk is the first one.
FirstChunk(items, k) == SubSeq(items, 1, Min({ChunkSize, Len(items)}))
Chunk(items, k) ==
    SubSeq(items, (k - 1) * ChunkSize + 1, Min({k * ChunkSize, Len(items)}))
ChunksOf(write, items) ==
    IF items = <<>> THEN <<>>
    ELSE [k \in 1..NumChunks(items) |-> [write |-> write, items |-> Chunk(items, k)]]
\* The tweets go first, the users last.
TweetsFirst(tweets) ==
    ChunksOf("addTweetsFrom", tweets)
        \o ChunksOf("addTweetsFrom", ReferencedIn(tweets))
        \o ChunksOf("addUsers", UsersIn(tweets))
\* The chunks a batch of tweets is pushed in: users, referenced tweets,
\* tweets, each array with its write function.
Jobs(tweets) ==
    ChunksOf("addUsers", UsersIn(tweets))
        \o ChunksOf("addTweetsFrom", ReferencedIn(tweets))
        \o ChunksOf("addTweetsFrom", tweets)

\* Processes one chunk with its write function.
writeChunk(g, job, v) ==
    IF job.write = "addUsers" THEN addUsers(g, Range(job.items), v)
    ELSE addTweetsFrom(g, Range(job.items), v)
\* Processes each chunk in turn.
RECURSIVE bulkWrites(_, _, _)
bulkWrites(g, jobs, v) ==
    IF jobs = <<>> THEN g
    ELSE bulkWrites(writeChunk(g, Head(jobs), v), Tail(jobs), v)

\* ---------------------------------------------------------- range tracker
\* 0 stands for an unset boundary.  A mutator answers the range to store
\* and the error it fails with ("none": it succeeded).
UnsetRange == [oldest |-> 0, newest |-> 0]
\* Direct overwrite of the older boundary.
setOldest(r, b) ==
    [range |-> [r EXCEPT !.oldest = b], error |-> "none"]
extendOlder(r, b) ==
    IF r.oldest = 0 \/ b < r.oldest
    THEN [range |-> [r EXCEPT !.oldest = b], error |-> "none"]
    ELSE [range |-> r, error |-> "InvariantViolation"]
\* Direct overwrite of the newer boundary.
setNewest(r, b) ==
    [range |-> [r EXCEPT !.newest = b], error |-> "none"]
extendNewer(r, b) ==
    IF r.newest = 0 \/ b > r.newest
    THEN [range |-> [r EXCEPT !.newest = b], error |-> "none"]
    ELSE [range |-> r, error |-> "InvariantViolation"]

\* ------------------------------------------------------------- upstream
\* Tweets 1..tip exist.  pullTweets returns at most PageSize of them.
TweetsOf(a, tip) == {p \in 1..tip : Author(p) = a}
RECURSIVE Newest(_, _)
Newest(S, n) ==
    IF n = 0 \/ S = {} THEN {} ELSE {Max(S)} \cup Newest(S \ {Max(S)}, n - 1)
RECURSIVE Oldest(_, _)
Oldest(S, n) ==
    IF n = 0 \/ S = {} THEN {} ELSE {Min(S)} \cup Oldest(S \ {Min(S)}, n - 1)
pullTweets(a, tip, r, dir) ==
    IF r.oldest = 0 \/ r.newest = 0 THEN Newest(TweetsOf(a, tip), PageSize)
    ELSE IF dir = "older"
         THEN Newest({p \in TweetsOf(a, tip) : p < r.oldest}, PageSize)
         ELSE Oldest({p \in TweetsOf(a, tip) : p > r.newest}, PageSize)

\* ------------------------------------------------------------------ state
VARIABLES
    status,      \* task -> status in the task database
    cause,       \* task -> failure cause ("none" when absent)
    accountIds,  \* task -> submitted account list
    queue,       \* task -> TRUE while its processing request is in the queue
    owner,       \* task -> instance holding write ownership (0: nobody)
    inst,        \* instance -> workflow execution record
    graph,       \* graph database
    range,       \* account -> indexed tweet range
    tip,         \* newest tweet ID existing upstream
    seen,        \* the last answer to a seeder asking for a task's status
    asked,       \* account -> boundaries handed to the range mutators so far
    answer       \* what the last operation called from outside answered

vars == <<status, cause, accountIds, queue, owner, inst, graph, range, tip, seen,
          asked, answer>>

\* A chain that ends after whatever state it is in.
NextStepSkipping(s) == "End"

\* States of the AddSeedAccountToStreamWorkflow, in chain order.
FirstStep == "InvokeUpsertTwitterAccount"
NextStep(s) ==
    CASE s = "InvokeUpsertTwitterAccount" -> "InvokeAddSeedAccountToStream"
      [] s = "InvokeAddSeedAccountToStream" -> "InvokeIndexTweetsFromAccount"
      [] s = "InvokeIndexTweetsFromAccount" -> "InvokeIndexFollowing"
      [] OTHER -> "End"

\* A rate limit handler attached to every state of the chain.
CatchesAtEveryStep(s) == TRUE

\* Errors of a step that the state machine catches to wait for the rate
\* limit reset.
CatchesRateLimit(s) == s = "InvokeIndexFollowing"

\* version: the snapshot of the upstream properties the instance fetches;
\* the workflow specification keeps upstream properties at their first one.
Snapshot == Min(Versions)
IdleInst == [pc |-> "Idle", task |-> "none", idx |-> 0, step |-> "none", version |-> 0,
             batch |-> <<>>, job |-> 0, tries |-> 0, resubmits |-> 0,
             start |-> EmptyGraph,
             phase |-> "none", page |-> {}, dir |-> "none", err |-> "none",
             waits |-> 0, remaining |-> 0]

Alive(i) == inst[i].pc \in {"Running", "Waiting"}
Account(i) == accountIds[inst[i].task][inst[i].idx]
At(i, s) == inst[i].pc = "Running" /\ inst[i].step = s

NoAnswer == [op |-> "none", task |-> "none", error |-> "none"]

Init ==
    /\ status = [t \in Tasks |-> "none"]
    /\ cause = [t \in Tasks |-> "none"]
    /\ accountIds = [t \in Tasks |-> <<>>]
    /\ queue = [t \in Tasks |-> FALSE]
    /\ owner = [t \in Tasks |-> 0]
    /\ inst = [i \in Instances |-> IdleInst]
    /\ graph = EmptyGraph
    /\ range = [a \in Accounts |-> UnsetRange]
    /\ tip = 4
    /\ seen = [task |-> "none", status |-> "none"]
    /\ asked = [a \in Accounts |-> [older |-> 0, newer |-> 0]]
    /\ answer = NoAnswer

\* ------------------------------------------------------------ Task & queue
\* A submit that puts the task into the task database and pushes nothing
\* to the queue.
SubmitWithoutRequest(t, l) ==
    /\ status[t] = "none"
    /\ ValidAccountList(l)
    /\ status' = [status EXCEPT ![t] = "queued"]
    /\ accountIds' = [accountIds EXCEPT ![t] = l]
    /\ answer' = [op |-> "submit", accountIds |-> l, task |-> t, error |-> "none"]
    /\ UNCHANGED <<cause, queue, owner, inst, graph, range, tip, seen, asked>>

\* Scenario steps 3-6: creates the task, puts it into the task database,
\* pushes the processing request and tells the task ID.
Submit(t, l) ==
    /\ status[t] = "none"
    /\ \A u \in Tasks : TaskNo(u) < TaskNo(t) => status[u] # "none"
    /\ IF ValidAccountList(l)
       THEN /\ status' = [status EXCEPT ![t] = "queued"]
            /\ accountIds' = [accountIds EXCEPT ![t] = l]
            /\ queue' = [queue EXCEPT ![t] = TRUE]
            /\ answer' = [op |-> "submit", accountIds |-> l, task |-> t,
                           error |-> "none"]
       ELSE /\ answer' = [op |-> "submit", accountIds |-> l, task |-> "none",
                           error |-> "ValidationError"]
            /\ UNCHANGED <<status, accountIds, queue>>
    /\ UNCHANGED <<cause, owner, inst, graph, range, tip, seen, asked>>

\* Scenario steps 13-14: the seeder asks for the status of the task.
GetTaskStatus(t) ==
    /\ status[t] # "none"
    /\ seen' = [task |-> t, status |-> status[t]]
    /\ UNCHANGED <<status, cause, accountIds, queue, owner, inst, graph, range, tip,
                   asked, answer>>

\* Every delivered processing request takes the task over.
AlwaysAcquires(s, ownerAlive) == TRUE

\* Whether a delivered processing request makes the receiving instance the
\* owner of the task: the task is still queued, or it is processing and the
\* instance that owned it is gone.
AcquiresOwnership(s, ownerAlive) ==
    \/ markProcessing(s) # "IllegalTransitionError"
    \/ s = "processing" /\ ~ownerAlive

\* Deliver as it would be without the ownership check: every delivered
\* request marks the task "processing" and runs the workflow.
DeliverUnguarded(t, i) ==
    /\ queue[t]
    /\ inst[i].pc = "Idle"
    /\ \A j \in Instances : j < i => inst[j].pc # "Idle"
    /\ status' = [status EXCEPT ![t] = "processing"]
    /\ owner' = [owner EXCEPT ![t] = i]
    /\ inst' = [inst EXCEPT ![i] =
           [IdleInst EXCEPT !.pc = "Running", !.task = t, !.idx = 1,
                            !.step = FirstStep, !.version = Snapshot]]
    /\ UNCHANGED <<cause, accountIds, queue, graph, range, tip, seen, asked, answer>>

\* Scenario steps 7-10: the queue picks the request and triggers a workflow,
\* which fetches the task and marks it "processing".  A request for a task
\* that is done, or that another live instance processes, is dropped.
Deliver(t, i) ==
    /\ queue[t]
    /\ inst[i].pc = "Idle"
    /\ \A j \in Instances : j < i => inst[j].pc # "Idle"
    /\ IF AcquiresOwnership(status[t], owner[t] # 0 /\ Alive(owner[t]))
       THEN /\ status' = [status EXCEPT ![t] = "processing"]
            /\ owner' = [owner EXCEPT ![t] = i]
            /\ inst' = [inst EXCEPT ![i] =
                   [IdleInst EXCEPT !.pc = "Running", !.task = t, !.idx = 1,
                                    !.step = FirstStep, !.version = Snapshot]]
       ELSE /\ inst' = [inst EXCEPT ![i] =
                   [IdleInst EXCEPT !.pc = "Skipped", !.task = t]]
            /\ UNCHANGED <<status, owner>>
    /\ UNCHANGED <<cause, accountIds, queue, graph, range, tip, seen, asked, answer>>

\* The queue forgets the request once a consumer has finished with it.
DeleteMessage(t) ==
    /\ queue[t]
    /\ \E i \in Instances :
           inst[i].task = t /\ inst[i].pc \in {"Succeeded", "Failed", "Skipped"}
    /\ queue' = [queue EXCEPT ![t] = FALSE]
    /\ UNCHANGED <<status, cause, accountIds, owner, inst, graph, range, tip, seen, asked, answer>>

\* ------------------------------------------------------- workflow endings
\* What an instance leaves in the task database: only the owner writes.
WriteStatus(i, new, why) ==
    LET t == inst[i].task
    IN IF owner[t] = i /\ new # "IllegalTransitionError"
       THEN /\ status' = [status EXCEPT ![t] = new]
            /\ cause' = [cause EXCEPT ![t] = why]
       ELSE UNCHANGED <<status, cause>>

\* A failure that records no cause.
FailWithoutCause(i, e) ==
    /\ inst' = [inst EXCEPT ![i] =
           [IdleInst EXCEPT !.pc = "Failed", !.task = inst[i].task,
                            !.step = inst[i].step, !.err = e]]
    /\ WriteStatus(i, markFailed(status[inst[i].task]), "none")

\* An error no state catches ends the execution as failed.
Fail(i, e) ==
    /\ inst' = [inst EXCEPT ![i] =
           [IdleInst EXCEPT !.pc = "Failed", !.task = inst[i].task,
                            !.step = inst[i].step, !.err = e]]
    /\ WriteStatus(i, markFailed(status[inst[i].task]), e)

\* A step succeeded: the next state, the next account, or the end.
Advance(i, r) ==
    LET n == NextStep(r.step)
        last == r.idx = Len(accountIds[r.task])
    IN IF n # "End"
       THEN /\ inst' = [inst EXCEPT ![i] = [r EXCEPT !.step = n]]
            /\ UNCHANGED <<status, cause>>
       ELSE IF ~last
       THEN /\ inst' = [inst EXCEPT ![i] =
                   [r EXCEPT !.step = FirstStep, !.idx = r.idx + 1]]
            /\ UNCHANGED <<status, cause>>
       ELSE /\ inst' = [inst EXCEPT ![i] =
                   [IdleInst EXCEPT !.pc = "Succeeded", !.task = r.task]]
            /\ WriteStatus(i, markDone(status[r.task]), "none")

\* What a RateLimitError can carry as rateLimitReset: nothing, or a
\* timestamp that many time units ahead.
ResetTimes == {{}} \cup {{r} : r \in 0..MaxReset}

\* Every error makes the instance wait and invoke the step again.
RaiseAndWait(i, e, reset) ==
    /\ inst' = [inst EXCEPT ![i].pc = "Waiting", ![i].err = e]
    /\ UNCHANGED <<status, cause>>

\* A step of the chain raised e.  A caught RateLimitError leads to the Wait
\* state, which needs the rateLimitReset timestamp of the error message;
\* without one the path does not resolve and the execution fails.
Raise(i, e, reset) ==
    IF e = "RateLimitError" /\ CatchesRateLimit(inst[i].step)
    THEN IF reset = {}
         THEN Fail(i, "States.Runtime")
         ELSE /\ inst' = [inst EXCEPT
                     ![i].pc = "Waiting", ![i].err = e,
                     ![i].waits = IF @ < TimeoutWaits THEN @ + 1 ELSE @,
                     ![i].remaining = CHOOSE r \in reset : TRUE]
              /\ UNCHANGED <<status, cause>>
    ELSE Fail(i, e)

\* ------------------------------------------------- steps of one account
\* Obtains the access token of the seeder and the information of the
\* account from Twitter, and creates the Account node.
InvokeUpsertTwitterAccount(i) ==
    /\ At(i, "InvokeUpsertTwitterAccount")
    /\ \E out \in {"ok", "CredentialError", "RateLimitError"} :
           IF out = "ok"
           THEN /\ graph' = addUsers(graph, {Account(i)}, inst[i].version)
                /\ Advance(i, inst[i])
           ELSE /\ Raise(i, out, {})
                /\ UNCHANGED graph
    /\ UNCHANGED <<accountIds, queue, owner, range, tip, seen, asked, answer>>

\* Adds the account to the stream.
InvokeAddSeedAccountToStream(i) ==
    /\ At(i, "InvokeAddSeedAccountToStream")
    /\ \E out \in {"ok", "TransientError"} :
           IF out = "ok" THEN Advance(i, inst[i]) ELSE Raise(i, out, {})
    /\ UNCHANGED <<accountIds, queue, owner, graph, range, tip, seen, asked, answer>>

\* Indexing the tweets of the account, first part: pulls a page of tweets
\* next to the indexed range (the latest ones when nothing is indexed).
PullTweets(i) ==
    /\ At(i, "InvokeIndexTweetsFromAccount")
    /\ inst[i].phase = "none"
    /\ \E out \in {"ok", "RateLimitError"}, d \in {"older", "newer"} :
           IF out = "ok"
           THEN /\ inst' = [inst EXCEPT
                       ![i].phase = "pulled",
                       ![i].dir = IF range[Account(i)] = UnsetRange THEN "latest" ELSE d,
                       ![i].page = pullTweets(Account(i), tip, range[Account(i)], d)]
                /\ UNCHANGED <<status, cause>>
           ELSE Raise(i, out, {})
    /\ UNCHANGED <<accountIds, queue, owner, graph, range, tip, seen, asked, answer>>

\* The page as Twitter returns it: the newest tweet first.
RECURSIVE Timeline(_)
Timeline(S) == IF S = {} THEN <<>> ELSE <<Max(S)>> \o Timeline(S \ {Max(S)})

\* The page counts as pushed although nothing was written.
BulkWriteSkipped(i) ==
    /\ At(i, "InvokeIndexTweetsFromAccount")
    /\ inst[i].phase = "pulled"
    /\ inst' = [inst EXCEPT ![i].phase = "written"]
    /\ UNCHANGED <<status, cause, accountIds, queue, owner, graph, range, tip, seen, asked, answer>>

\* Second part: pushes the pulled tweets into the graph database.  The
\* write of a chunk may fail for good after earlier chunks were written.
BulkWrite(i) ==
    /\ At(i, "InvokeIndexTweetsFromAccount")
    /\ inst[i].phase = "pulled"
    /\ \E out \in {"ok", "StoreWriteError"} :
           IF out = "ok"
           THEN /\ graph' = bulkWrite(graph, inst[i].page, inst[i].version)
                /\ inst' = [inst EXCEPT ![i].phase = "written"]
                /\ UNCHANGED <<status, cause>>
           ELSE LET jobs == Jobs(Timeline(inst[i].page))
                IN /\ \E n \in 0..(Len(jobs) - 1) :
                          graph' = bulkWrites(graph, SubSeq(jobs, 1, n), inst[i].version)
                   /\ Raise(i, out, {})
    /\ UNCHANGED <<accountIds, queue, owner, range, tip, seen, asked, answer>>

\* Widens the stored range to cover the page: the older boundary, the newer
\* boundary, or both when nothing was indexed.  Either mutator may refuse.
largestOf(page) == Max(page)
PageOldest(page) == Min(page)
PageNewest(page) == Max(page)
\* Direct overwrite of both boundaries with those of the page.
overwriteUserIndexedTweetIds(r, page, dir) ==
    [range |-> [oldest |-> PageOldest(page), newest |-> PageNewest(page)],
     error |-> "none"]
updateUserIndexedTweetIds(r, page, dir) ==
    LET older == IF dir \in {"latest", "older"}
                 THEN extendOlder(r, PageOldest(page))
                 ELSE [range |-> r, error |-> "none"]
        newer == IF dir \in {"latest", "newer"}
                 THEN extendNewer(older.range, PageNewest(page))
                 ELSE [range |-> older.range, error |-> "none"]
    IN [range |-> newer.range,
        error |-> IF older.error # "none" THEN older.error ELSE newer.error]

\* The boundaries handed to the mutators so far: the smallest to extendOlder
\* and the largest to extendNewer (0: none yet).
Asked(h, page, dir) ==
    [older |-> IF dir \in {"latest", "older"} /\ (h.older = 0 \/ PageOldest(page) < h.older)
               THEN PageOldest(page) ELSE h.older,
     newer |-> IF dir \in {"latest", "newer"} /\ PageNewest(page) > h.newer
               THEN PageNewest(page) ELSE h.newer]

\* Third part: updates the indexed tweet range of the account.
UpdateRange(i) ==
    /\ At(i, "InvokeIndexTweetsFromAccount")
    /\ inst[i].phase = "written"
    /\ LET a == Account(i)
           new == IF inst[i].page = {} THEN [range |-> range[a], error |-> "none"]
                  ELSE updateUserIndexedTweetIds(range[a], inst[i].page, inst[i].dir)
       IN /\ range' = [range EXCEPT ![a] = new.range]
          /\ asked' = IF inst[i].page = {} THEN asked
                      ELSE [asked EXCEPT ![a] = Asked(@, inst[i].page, inst[i].dir)]
          /\ IF new.error # "none"
             THEN Fail(i, new.error)
             ELSE Advance(i, [inst[i] EXCEPT !.phase = "none", !.page = {},
                                             !.dir = "none"])
    /\ UNCHANGED <<accountIds, queue, owner, graph, tip, seen, answer>>

\* Indexes the accounts the account follows.  An error may strike after
\* some of them have been written.
Following(a) == Accounts \ {a}
InvokeIndexFollowing(i) ==
    /\ At(i, "InvokeIndexFollowing")
    /\ \E out \in {"ok", "RateLimitError", "TransientError"}, reset \in ResetTimes :
           IF out = "ok"
           THEN /\ graph' = addUsers(graph, Following(Account(i)), inst[i].version)
                /\ Advance(i, inst[i])
           ELSE /\ \E written \in SUBSET Following(Account(i)) :
                       graph' = addUsers(graph, written, inst[i].version)
                /\ Raise(i, out, reset)
    /\ UNCHANGED <<accountIds, queue, owner, range, tip, seen, asked, answer>>

\* Time passes for a waiting instance.
Elapse(i) ==
    /\ inst[i].pc = "Waiting"
    /\ inst[i].remaining > 0
    /\ inst' = [inst EXCEPT ![i].remaining = @ - 1]
    /\ UNCHANGED <<status, cause, accountIds, queue, owner, graph, range, tip, seen, asked, answer>>

\* A wait that ends before the timestamp is reached.
ResumeAtOnce(i) ==
    /\ inst[i].pc = "Waiting"
    /\ inst' = [inst EXCEPT ![i].pc = "Running", ![i].err = "none"]
    /\ UNCHANGED <<status, cause, accountIds, queue, owner, graph, range, tip, seen, asked, answer>>

\* ExtractRateLimitCause, ExtractRateLimitMessage, WaitRateLimitReset: once
\* the rateLimitReset timestamp is reached the caught task is invoked again.
WaitRateLimitReset(i) ==
    /\ inst[i].pc = "Waiting"
    /\ inst[i].remaining = 0
    /\ inst' = [inst EXCEPT ![i].pc = "Running", ![i].err = "none"]
    /\ UNCHANGED <<status, cause, accountIds, queue, owner, graph, range, tip, seen, asked, answer>>

\* A workflow without a timeout.
NoTimeout(i) ==
    /\ Alive(i)
    /\ inst[i].waits >= TimeoutWaits
    /\ UNCHANGED vars

\* The workflow timeout strikes.
Timeout(i) ==
    /\ Alive(i)
    /\ inst[i].waits >= TimeoutWaits
    /\ inst' = [inst EXCEPT ![i] =
           [IdleInst EXCEPT !.pc = "TimedOut", !.task = inst[i].task]]
    /\ WriteStatus(i, "TIMED_OUT", "States.Timeout")
    /\ UNCHANGED <<accountIds, queue, owner, graph, range, tip, seen, asked, answer>>

\* A stop that leaves a status of its own.
AbortAsCancelled(i) ==
    /\ Alive(i)
    /\ inst' = [inst EXCEPT ![i] =
           [IdleInst EXCEPT !.pc = "Aborted", !.task = inst[i].task]]
    /\ WriteStatus(i, "CANCELLED", "none")
    /\ UNCHANGED <<accountIds, queue, owner, graph, range, tip, seen, asked, answer>>

\* The execution is stopped from outside.
Abort(i) ==
    /\ Alive(i)
    /\ inst' = [inst EXCEPT ![i] =
           [IdleInst EXCEPT !.pc = "Aborted", !.task = inst[i].task]]
    /\ WriteStatus(i, "ABORTED", "none")
    /\ UNCHANGED <<accountIds, queue, owner, graph, range, tip, seen, asked, answer>>

\* The worker running the instance is lost.
Crash(i) ==
    /\ Alive(i)
    /\ inst' = [inst EXCEPT ![i] =
           [IdleInst EXCEPT !.pc = "Crashed", !.task = inst[i].task]]
    /\ UNCHANGED <<status, cause, accountIds, queue, owner, graph, range, tip, seen, asked, answer>>

\* Somebody tweets.
NewTweet ==
    /\ tip < MaxPostId
    /\ tip' = tip + 1
    /\ UNCHANGED <<status, cause, accountIds, queue, owner, inst, graph, range, seen, asked, answer>>

Next ==
    \/ \E t \in Tasks, l \in AccountLists : Submit(t, l)
    \/ \E t \in Tasks : GetTaskStatus(t)
    \/ \E t \in Tasks, i \in Instances : Deliver(t, i)
    \/ \E t \in Tasks : DeleteMessage(t)
    \/ \E i \in Instances : InvokeUpsertTwitterAccount(i)
    \/ \E i \in Instances : InvokeAddSeedAccountToStream(i)
    \/ \E i \in Instances : PullTweets(i)
    \/ \E i \in Instances : BulkWrite(i)
    \/ \E i \in Instances : UpdateRange(i)
    \/ \E i \in Instances : InvokeIndexFollowing(i)
    \/ \E i \in Instances : Elapse(i)
    \/ \E i \in Instances : WaitRateLimitReset(i)
    \/ \E i \in Instances : Timeout(i)
    \/ \E i \in Instances : Abort(i)
    \/ \E i \in Instances : Crash(i)
    \/ NewTweet

Spec == Init /\ [][Next]_vars

\* ------------------------------------------------ the workflow under fairness
\* A consumer that dropped a request is free for the next one.
Release(i) ==
    /\ inst[i].pc = "Skipped"
    /\ inst' = [inst EXCEPT ![i] = IdleInst]
    /\ UNCHANGED <<status, cause, accountIds, queue, owner, graph, range, tip, seen, asked, answer>>

\* One step of a workflow instance.
Step(i) ==
    \/ InvokeUpsertTwitterAccount(i)
    \/ InvokeAddSeedAccountToStream(i)
    \/ PullTweets(i)
    \/ BulkWrite(i)
    \/ UpdateRange(i)
    \/ InvokeIndexFollowing(i)
    \/ Elapse(i)
    \/ WaitRateLimitReset(i)

\* No worker is lost and no execution is stopped from outside; the queue
\* keeps delivering every request, the instances keep stepping, time
\* passes, and the workflow timeout strikes when it is due.
NextLive ==
    \/ \E t \in Tasks, l \in AccountLists : Submit(t, l)
    \/ \E t \in Tasks, i \in Instances : Deliver(t, i)
    \/ \E t \in Tasks : DeleteMessage(t)
    \/ \E i \in Instances : Step(i)
    \/ \E i \in Instances : Timeout(i)
    \/ \E i \in Instances : Release(i)

LiveSpec ==
    /\ Init
    /\ [][NextLive]_vars
    /\ \A t \in Tasks : SF_vars(\E i \in Instances : Deliver(t, i))
    /\ WF_vars(\E i \in Instances : Step(i))
    /\ WF_vars(\E i \in Instances : Timeout(i))
    /\ WF_vars(\E i \in Instances : Release(i))

\* ------------------------------------------- the upsert engine on its own
\* Graphs the store can hold: no copy twice, no relationship without its
\* two end nodes.
EndNodes(k) ==
    IF k[1] = "POSTED" THEN {<<"Account", k[2]>>, <<"Tweet", k[3]>>}
    ELSE {<<"Tweet", k[2]>>, <<"Tweet", k[3]>>}
Graphs ==
    {[nodes |-> g.nodes, rels |-> g.rels,
      props |-> [k \in NodeKeys |-> g.nodes[k] * Snapshot]] :
        g \in {h \in [nodes : [NodeKeys -> 0..1], rels : [RelKeys -> 0..1]] :
                  \A k \in RelKeys : h.rels[k] = 1 => \A n \in EndNodes(k) : h.nodes[n] = 1}}
Pages == {page \in SUBSET PostIds : Cardinality(page) <= PageSize}

\* An instance about to push a pulled page into an arbitrary graph.
InitUpsert ==
    /\ status = [t \in Tasks |-> IF t = "t1" THEN "processing" ELSE "none"]
    /\ cause = [t \in Tasks |-> "none"]
    /\ accountIds = [t \in Tasks |-> IF t = "t1" THEN <<"a1">> ELSE <<>>]
    /\ queue = [t \in Tasks |-> t = "t1"]
    /\ owner = [t \in Tasks |-> IF t = "t1" THEN 1 ELSE 0]
    /\ \E page \in Pages :
           inst = [i \in Instances |->
                      IF i = 1
                      THEN [IdleInst EXCEPT !.pc = "Running", !.task = "t1", !.idx = 1,
                                            !.step = "InvokeIndexTweetsFromAccount",
                                            !.phase = "pulled", !.dir = "latest",
                                            !.page = page, !.version = Snapshot]
                      ELSE IdleInst]
    /\ graph \in Graphs
    /\ range = [a \in Accounts |-> UnsetRange]
    /\ tip = MaxPostId
    /\ seen = [task |-> "none", status |-> "none"]
    /\ asked = [a \in Accounts |-> [older |-> 0, newer |-> 0]]
    /\ answer = NoAnswer

\* The chunk that was written is submitted once more.
ResubmitChunk(i) ==
    /\ At(i, "InvokeIndexTweetsFromAccount")
    /\ inst[i].phase = "written"
    /\ graph' = bulkWrite(graph, inst[i].page, inst[i].version)
    /\ inst' = [inst EXCEPT ![i].phase = "resubmitted"]
    /\ UNCHANGED <<status, cause, accountIds, queue, owner, range, tip, seen, asked, answer>>

NextUpsert ==
    \/ \E i \in Instances : BulkWrite(i)
    \/ \E i \in Instances : ResubmitChunk(i)

SpecUpsert == InitUpsert /\ [][NextUpsert]_vars

\* ------------------------------------------- the engine, chunk by chunk
\* Batches of distinct tweets, in any order of arrival.
Batches ==
    {b \in UNION {[1..n -> PostIds] : n \in 1..MaxBatch} :
        \A m, n \in DOMAIN b : m # n => b[m] # b[n]}
\* Graphs the engine left behind earlier.
StartGraphs ==
    {EmptyGraph} \cup {bulkWrite(EmptyGraph, page, v) : page \in Pages \ {{}}, v \in Versions}

\* Instance i about to push the batch b of snapshot v into the graph g.
Pushing(t, b, v, g) ==
    [IdleInst EXCEPT !.pc = "Running", !.task = t, !.idx = 1,
                     !.step = "InvokeIndexTweetsFromAccount",
                     !.phase = "pulled", !.dir = "latest",
                     !.page = Range(b), !.version = v,
                     !.batch = b, !.job = 1, !.start = g]

InitEngine ==
    /\ status = [t \in Tasks |-> IF t = "t1" THEN "processing" ELSE "none"]
    /\ cause = [t \in Tasks |-> "none"]
    /\ accountIds = [t \in Tasks |-> IF t = "t1" THEN <<"a1">> ELSE <<>>]
    /\ queue = [t \in Tasks |-> t = "t1"]
    /\ owner = [t \in Tasks |-> IF t = "t1" THEN 1 ELSE 0]
    /\ graph \in StartGraphs
    /\ \E b \in Batches, v \in Versions :
           inst = [i \in Instances |->
                      IF i = 1 THEN Pushing("t1", b, v, graph) ELSE IdleInst]
    /\ range = [a \in Accounts |-> UnsetRange]
    /\ tip = MaxPostId
    /\ seen = [task |-> "none", status |-> "none"]
    /\ asked = [a \in Accounts |-> [older |-> 0, newer |-> 0]]
    /\ answer = NoAnswer

\* A write that fails after the first item of the chunk got through.
WriteChunkTorn(i) ==
    /\ At(i, "InvokeIndexTweetsFromAccount")
    /\ inst[i].phase = "pulled"
    /\ inst[i].job \in DOMAIN Jobs(inst[i].batch)
    /\ LET job == Jobs(inst[i].batch)[inst[i].job]
       IN graph' = writeChunk(graph, [job EXCEPT !.items = SubSeq(@, 1, 1)],
                              inst[i].version)
    /\ inst' = [inst EXCEPT ![i].tries = MaxRetries]
    /\ UNCHANGED <<status, cause, accountIds, queue, owner, range, tip, seen, asked, answer>>

\* A failed write is tried again however often it failed before.
WriteChunkNoGiveUp(i) ==
    /\ At(i, "InvokeIndexTweetsFromAccount")
    /\ inst[i].phase = "pulled"
    /\ inst[i].job \in DOMAIN Jobs(inst[i].batch)
    /\ inst[i].tries <= MaxRetries
    /\ inst' = [inst EXCEPT ![i].tries = @ + 1]
    /\ UNCHANGED <<status, cause, accountIds, queue, owner, graph, range, tip, seen, asked, answer>>

\* The next chunk is written in one transaction, or its write fails and is
\* tried again, MaxRetries times at most.
WriteChunk(i) ==
    /\ At(i, "InvokeIndexTweetsFromAccount")
    /\ inst[i].phase = "pulled"
    /\ inst[i].job \in DOMAIN Jobs(inst[i].batch)
    /\ \E out \in {"ok", "StoreWriteError"} :
           IF out = "ok"
           THEN /\ graph' = writeChunk(graph, Jobs(inst[i].batch)[inst[i].job],
                                       inst[i].version)
                /\ inst' = [inst EXCEPT
                       ![i].job = @ + 1,
                       ![i].tries = 0,
                       ![i].phase = IF inst[i].job = Len(Jobs(inst[i].batch))
                                    THEN "written" ELSE @]
                /\ UNCHANGED <<status, cause>>
           ELSE /\ UNCHANGED graph
                /\ IF inst[i].tries < MaxRetries
                   THEN /\ inst' = [inst EXCEPT ![i].tries = @ + 1]
                        /\ UNCHANGED <<status, cause>>
                   ELSE Fail(i, out)
    /\ UNCHANGED <<accountIds, queue, owner, range, tip, seen, asked, answer>>

\* A chunk that was written is submitted once more.
RewriteChunk(i) ==
    /\ At(i, "InvokeIndexTweetsFromAccount")
    /\ inst[i].phase \in {"pulled", "written"}
    /\ inst[i].resubmits = 0
    /\ \E k \in 1..(inst[i].job - 1) :
           graph' = writeChunk(graph, Jobs(inst[i].batch)[k], inst[i].version)
    /\ inst' = [inst EXCEPT ![i].resubmits = 1]
    /\ UNCHANGED <<status, cause, accountIds, queue, owner, range, tip, seen, asked, answer>>

NextEngine ==
    \/ \E i \in Instances : WriteChunk(i)
    \/ \E i \in Instances : RewriteChunk(i)
    \/ \E i \in Instances : UpdateRange(i)

SpecEngine == InitEngine /\ [][NextEngine]_vars

\* Two instances, of two tasks, push a batch each into the same graph, the
\* chunks of the one between the chunks of the other.
InitConcurrent ==
    /\ status = [t \in Tasks |-> "processing"]
    /\ cause = [t \in Tasks |-> "none"]
    /\ accountIds = [t \in Tasks |-> <<"a1">>]
    /\ queue = [t \in Tasks |-> TRUE]
    /\ owner = [t \in Tasks |-> TaskNo(t)]
    /\ graph = EmptyGraph
    /\ \E b1, b2 \in {b \in Batches : Len(b) <= ChunkSize}, v1, v2 \in Versions :
           inst = [i \in Instances |->
                      IF i = 1 THEN Pushing("t1", b1, v1, graph)
                      ELSE IF i = 2 THEN Pushing("t2", b2, v2, graph)
                      ELSE IdleInst]
    /\ range = [a \in Accounts |-> UnsetRange]
    /\ tip = MaxPostId
    /\ seen = [task |-> "none", status |-> "none"]
    /\ asked = [a \in Accounts |-> [older |-> 0, newer |-> 0]]
    /\ answer = NoAnswer

NextConcurrent == \E i \in Instances : WriteChunk(i)

SpecConcurrent == InitConcurrent /\ [][NextConcurrent]_vars

\* ------------------------------- the task store and the range tracker alone
\* Their operations called one at a time on any stored state.
StoredStatuses == Statuses \ {"none"}
CauseOf(st) ==
    IF st = "failed" THEN "TransientError"
    ELSE IF st = "TIMED_OUT" THEN "States.Timeout" ELSE "none"
RangesInOrder == {r \in [oldest : 0..MaxPostId, newest : 0..MaxPostId] :
                     (r.oldest = 0) = (r.newest = 0) /\ r.oldest <= r.newest}

InitStore ==
    /\ status \in [Tasks -> StoredStatuses]
    /\ cause = [t \in Tasks |-> CauseOf(status[t])]
    /\ accountIds = [t \in Tasks |-> <<"a1">>]
    /\ queue = [t \in Tasks |-> FALSE]
    /\ owner = [t \in Tasks |-> 0]
    /\ inst = [i \in Instances |-> IdleInst]
    /\ graph = EmptyGraph
    /\ range = [a \in Accounts |-> UnsetRange]
    /\ tip = MaxPostId
    /\ seen = [task |-> "none", status |-> "none"]
    /\ asked = [a \in Accounts |-> [older |-> 0, newer |-> 0]]
    /\ answer = NoAnswer

InitTracker ==
    /\ status = [t \in Tasks |-> "none"]
    /\ cause = [t \in Tasks |-> "none"]
    /\ accountIds = [t \in Tasks |-> <<>>]
    /\ queue = [t \in Tasks |-> FALSE]
    /\ owner = [t \in Tasks |-> 0]
    /\ inst = [i \in Instances |-> IdleInst]
    /\ graph = EmptyGraph
    /\ range \in [Accounts -> RangesInOrder]
    /\ tip = MaxPostId
    /\ seen = [task |-> "none", status |-> "none"]
    /\ asked = [a \in Accounts |-> [older |-> 0, newer |-> 0]]
    /\ answer = NoAnswer

\* A Task Store mutator called on task t: the transition is made, or the
\* call fails and nothing is stored.
Mark(op, t, new, why) ==
    /\ IF new # "IllegalTransitionError"
       THEN /\ status' = [status EXCEPT ![t] = new]
            /\ cause' = [cause EXCEPT ![t] = why]
            /\ answer' = [op |-> op, task |-> t, error |-> "none"]
       ELSE /\ answer' = [op |-> op, task |-> t, error |-> new]
            /\ UNCHANGED <<status, cause>>
    /\ UNCHANGED <<accountIds, queue, owner, inst, graph, range, tip, seen, asked>>
MarkProcessing(t) == Mark("markProcessing", t, markProcessing(status[t]), cause[t])
MarkDone(t) == Mark("markDone", t, markDone(status[t]), cause[t])
MarkFailed(t, why) == Mark("markFailed", t, markFailed(status[t]), why)

\* A Range Tracker mutator called on account a with boundary b.
Extend(op, a, b, new) ==
    /\ range' = [range EXCEPT ![a] = new.range]
    /\ answer' = [op |-> op, account |-> a, boundary |-> b, error |-> new.error]
    /\ UNCHANGED <<status, cause, accountIds, queue, owner, inst, graph, tip, seen, asked>>
ExtendOlder(a, b) == Extend("extendOlder", a, b, extendOlder(range[a], b))
ExtendNewer(a, b) == Extend("extendNewer", a, b, extendNewer(range[a], b))

NextStore ==
    \/ \E t \in Tasks : MarkProcessing(t)
    \/ \E t \in Tasks : MarkDone(t)
    \/ \E t \in Tasks, why \in {"CredentialError", "TransientError"} : MarkFailed(t, why)

NextTracker ==
    \/ \E a \in Accounts, b \in PostIds : ExtendOlder(a, b)
    \/ \E a \in Accounts, b \in PostIds : ExtendNewer(a, b)

SpecStore == InitStore /\ [][NextStore]_vars
SpecTracker == InitTracker /\ [][NextTracker]_vars

\* ------------------------------------------------------ deployment stage
\* Values a CDK context can hold: nothing (null or undefined), a string, or
\* something else (a number, a list, ...), which is identical to no string.
Null == [kind |-> "null", text |-> ""]
Str(s) == [kind |-> "string", text |-> s]
Other(s) == [kind |-> "other", text |-> s]
StageTexts ==
    {p \o s \o q : p \in {"", " ", "pre-"},
                   s \in {"development", "production", "test", "Development",
                          "PRODUCTION", "dev", "prod", "staging", ""},
                   q \in {"", " ", "s"}}
ContextValues == {Null} \cup {Str(s) : s \in StageTexts} \cup {Other(s) : s \in StageTexts}

DEPLOYMENT_STAGES == <<Str("development"), Str("production")>>
\* A check that lets everything through.
acceptsAnything(stageStr) == TRUE
isDeploymentStage(stageStr) ==
    \E n \in DOMAIN DEPLOYMENT_STAGES : DEPLOYMENT_STAGES[n] = stageStr
\* The stage returned, or the error thrown.
getDeploymentStage(stage) ==
    IF stage = Null THEN [stage |-> Null, error |-> "RangeError"]
    ELSE IF ~isDeploymentStage(stage) THEN [stage |-> Null, error |-> "RangeError"]
    ELSE [stage |-> stage, error |-> "none"]

\* A call of either function is pending.
InitStage ==
    /\ status = [t \in Tasks |-> "none"]
    /\ cause = [t \in Tasks |-> "none"]
    /\ accountIds = [t \in Tasks |-> <<>>]
    /\ queue = [t \in Tasks |-> FALSE]
    /\ owner = [t \in Tasks |-> 0]
    /\ inst = [i \in Instances |-> IdleInst]
    /\ graph = EmptyGraph
    /\ range = [a \in Accounts |-> UnsetRange]
    /\ tip = MaxPostId
    /\ seen = [task |-> "none", status |-> "none"]
    /\ asked = [a \in Accounts |-> [older |-> 0, newer |-> 0]]
    /\ \E f \in {"isDeploymentStage", "getDeploymentStage"}, x \in ContextValues :
           answer = [op |-> f, given |-> x, returned |-> FALSE, result |-> Null,
                     error |-> "none"]

IsDeploymentStage ==
    /\ answer.op = "isDeploymentStage"
    /\ ~answer.returned
    /\ answer' = [answer EXCEPT !.returned = TRUE,
                                !.result = isDeploymentStage(answer.given)]
    /\ UNCHANGED <<status, cause, accountIds, queue, owner, inst, graph, range, tip, seen, asked>>

GetDeploymentStage ==
    /\ answer.op = "getDeploymentStage"
    /\ ~answer.returned
    /\ answer' = [answer EXCEPT !.returned = TRUE,
                                !.result = getDeploymentStage(answer.given).stage,
                                !.error = getDeploymentStage(answer.given).error]
    /\ UNCHANGED <<status, cause, accountIds, queue, owner, inst, graph, range, tip, seen, asked>>

NextStage == IsDeploymentStage \/ GetDeploymentStage

SpecStage == InitStage /\ [][NextStage]_vars

\* =================================================================== claims
LegalMoves ==
    {<<"none", "queued">>, <<"queued", "processing">>,
     <<"processing", "done">>, <<"processing", "failed">>}
Rank(s) ==
    CASE s = "none" -> 0 [] s = "queued" -> 1 [] s = "processing" -> 2 [] OTHER -> 3

\* C1 as stated: the only moves of a task's status are queued -> processing
\* -> done | failed, so the observed statuses are a subsequence of queued,
\* processing, then exactly one of done or failed.
C1_Original ==
    [][\A t \in Tasks :
          status'[t] # status[t] => <<status[t], status'[t]>> \in LegalMoves]_vars

\* C1 (amended): the status of a task only moves queued -> processing -> one
\* terminal status, which is done, failed, TIMED_OUT or ABORTED; it never
\* regresses, never leaves a terminal status and never skips processing;
\* what a seeder is told about a task never regresses either.
C1_StatusMonotonic ==
    [][/\ \A t \in Tasks :
             status'[t] # status[t] =>
                 <<status[t], status'[t]>> \in
                     LegalMoves \cup {<<"processing", "TIMED_OUT">>,
                                       <<"processing", "ABORTED">>}
       /\ seen'.task = seen.task =>
             /\ Rank(seen'.status) >= Rank(seen.status)
             /\ seen.status \in TerminalStatuses => seen'.status = seen.status]_vars

\* C1 witness: a seeder was told "processing" and the task has since ended
\* by the workflow timeout.
C1_Witness ==
    /\ seen.status = "processing"
    /\ seen.task \in Tasks
    /\ status[seen.task] = "TIMED_OUT"

FetchSteps == {"InvokeUpsertTwitterAccount", "InvokeIndexTweetsFromAccount"}

\* C2 as stated: a rate limit hit while fetching the account information or
\* the timeline page suspends the instance, and the instance resumes at the
\* first step of the account.
C2_RateLimitRestartsSubscenario ==
    [][\A i \in Instances :
          /\ (/\ inst[i].pc = "Running"
              /\ inst[i].step \in FetchSteps
              /\ inst'[i].err = "RateLimitError")
                 => inst'[i].pc = "Waiting"
          /\ (/\ inst[i].pc = "Waiting"
              /\ inst[i].step \in FetchSteps
              /\ inst'[i].pc = "Running")
                 => inst'[i].step = FirstStep]_vars

\* C3 as stated: no task is failed with a rate limit as its cause.
C3_RateLimitNeverFatal ==
    \A t \in Tasks : status[t] = "failed" => cause[t] # "RateLimitError"

\* C4: an instance invoked for a task that is already done is dropped: the
\* status and cause of the task, the graph and every indexed range stay as
\* they are, and the dropped instance never takes a step (so it fetches
\* nothing upstream).
C4_DoneInvocationIsNoOp ==
    [][\A i \in Instances :
          /\ (/\ inst[i].pc = "Idle"
              /\ inst'[i].pc # "Idle"
              /\ status[inst'[i].task] = "done")
                 => /\ inst'[i].pc = "Skipped"
                    /\ UNCHANGED <<status, cause, graph, range>>
          /\ inst[i].pc = "Skipped" => inst'[i] = inst[i]]_vars

\* C4 witness: an instance was invoked for a task that is done.
C4_Witness ==
    \E i \in Instances : inst[i].pc = "Skipped" /\ status[inst[i].task] = "done"

Redelivered(t) ==
    \E i, j \in Instances : i # j /\ inst[i].task = t /\ inst[j].task = t
NoDuplicates(g) ==
    /\ \A k \in NodeKeys : g.nodes[k] <= 1
    /\ \A k \in RelKeys : g.rels[k] <= 1
Widened(r, q) ==
    /\ r.oldest # 0 => q.oldest # 0 /\ q.oldest <= r.oldest
    /\ r.newest # 0 => q.newest >= r.newest
NothingLost(a) ==
    /\ asked[a].older # 0 => range[a].oldest = asked[a].older
    /\ asked[a].newer # 0 => range[a].newest = asked[a].newer

C6_SingleWriteOwner ==
    [][\A t \in Tasks :
          /\ Cardinality({i \in Instances :
                 inst'[i].pc \in {"Running", "Waiting"} /\ inst'[i].task = t}) <= 1
          /\ \A i \in Instances :
                 inst'[i].pc \in {"Running", "Waiting"} /\ inst'[i].task = t
                     => owner'[t] = i
          /\ (status'[t] # status[t] /\ status[t] # "none")
                 => /\ owner'[t] \in Instances
                    /\ inst'[owner'[t]] # inst[owner'[t]]
                    /\ \A j \in Instances \ {owner'[t]} : inst'[j] = inst[j]]_vars

\* C6 witness: the request of a processing task reached a second consumer
\* while the owner was alive.
C6_Witness ==
    \E i, j \in Instances :
        /\ inst[i].pc = "Skipped"
        /\ inst[j].pc \in {"Running", "Waiting"}
        /\ inst[i].task = inst[j].task
        /\ status[inst[j].task] = "processing"

\* C7: pushing a page into the graph a second time leaves the graph exactly
\* as the first push left it, whatever graph the first push started from,
\* and neither push leaves a node or a relationship twice.
C7_IdempotentUpsert ==
    [][\A i \in Instances :
          /\ inst'[i].phase \in {"written", "resubmitted"} => NoDuplicates(graph')
          /\ (inst[i].phase = "written" /\ inst'[i].phase = "resubmitted")
                 => graph' = graph]_vars

\* C7 witness: a page whose tweets reference tweets of both accounts was
\* pushed twice, and the graph holds every node and relationship of the
\* page once and nothing of the tweet the page does not reach.
C7_Witness ==
    /\ inst[1].phase = "resubmitted"
    /\ inst[1].page = {4, 5}
    /\ \A k \in NodeKeys \ {<<"Tweet", 1>>} : graph.nodes[k] = 1
    /\ \A k \in RelKeys \ {<<"POSTED", "a1", 1>>} : graph.rels[k] = 1
    /\ graph.nodes[<<"Tweet", 1>>] = 0

IsSet(r) == r.oldest # 0 /\ r.newest # 0

C10_AccountsSequential ==
    [][\A i \in Instances :
          /\ (inst[i].pc = "Idle" /\ inst'[i].pc = "Running")
                 => inst'[i].idx = 1 /\ inst'[i].step = FirstStep
          /\ (inst[i].pc # "Idle" /\ inst'[i].pc \in {"Running", "Waiting"}
                 /\ inst'[i].idx # inst[i].idx)
                 => /\ inst'[i].idx = inst[i].idx + 1
                    /\ inst[i].pc = "Running"
                    /\ inst[i].step = "InvokeIndexFollowing"
                    /\ inst'[i].step = FirstStep
                    /\ inst'[i].task = inst[i].task
          /\ \A j \in Instances \ {i} :
                 (inst'[i].pc \in {"Running", "Waiting"}
                     /\ inst'[j].pc \in {"Running", "Waiting"})
                 => inst'[i].task # inst'[j].task]_vars

\* C10 witness: an instance has finished the first account of its task and
\* works on the second.
C10_Witness ==
    \E i \in Instances :
        /\ inst[i].pc = "Running"
        /\ inst[i].idx = 2
        /\ inst[i].step = "InvokeIndexTweetsFromAccount"
        /\ Account(i) = "a2"

MarkOps == {"markProcessing", "markDone", "markFailed"}
From(op) == IF op = "markProcessing" THEN "queued" ELSE "processing"
To(op) ==
    CASE op = "markProcessing" -> "processing"
      [] op = "markDone" -> "done"
      [] OTHER -> "failed"

\* C14: a call of markProcessing, markDone or markFailed on a task moves the
\* task along queued -> processing -> {done | failed} when the status of the
\* task is the one the operation starts from; on any other status it
\* answers IllegalTransitionError and the status and the cause of the task
\* stay as they are.  Nothing else changes a status or a cause.
C14_IllegalTransitionRejected ==
    [][\A t \in Tasks :
          /\ (answer' # answer /\ answer'.op \in MarkOps /\ answer'.task = t)
                 => IF status[t] = From(answer'.op)
                    THEN /\ answer'.error = "none"
                         /\ status'[t] = To(answer'.op)
                    ELSE /\ answer'.error = "IllegalTransitionError"
                         /\ status'[t] = status[t]
                         /\ cause'[t] = cause[t]
          /\ (status'[t] # status[t] \/ cause'[t] # cause[t])
                 => /\ answer'.op \in MarkOps
                    /\ answer'.task = t
                    /\ answer'.error = "none"
                    /\ status[t] = From(answer'.op)]_vars

\* C14 witness: markDone was refused on a task that is still queued, and
\* left it queued.
C14_Witness ==
    /\ answer = [op |-> "markDone", task |-> "t1", error |-> "IllegalTransitionError"]
    /\ status["t1"] = "queued"
    /\ status["t2"] = "done"
    /\ cause["t2"] = "none"

\* C15 as stated: the status of a task is always one of queued, processing,
\* done, failed.
C15_Original ==
    \A t \in Tasks : status[t] \in {"none", "queued", "processing", "done", "failed"}

\* C15 (amended): the status of a task, stored or told to a seeder, is
\* always one of queued, processing, done, failed, TIMED_OUT, ABORTED; a
\* task leaves processing only for one of the four terminal statuses, for
\* TIMED_OUT only when the workflow timeout strikes its owner and for
\* ABORTED only when the execution of its owner is stopped.
C15_StatusDomain ==
    [][/\ seen'.status \in Statuses
       /\ \A t \in Tasks :
             /\ status'[t] \in Statuses
             /\ (status[t] = "processing" /\ status'[t] # "processing")
                    => /\ status'[t] \in TerminalStatuses
                       /\ owner[t] \in Instances
                       /\ Alive(owner[t])
                       /\ status'[t] = "TIMED_OUT" =>
                              /\ inst'[owner[t]].pc = "TimedOut"
                              /\ inst[owner[t]].waits >= TimeoutWaits
                       /\ status'[t] = "ABORTED" => inst'[owner[t]].pc = "Aborted"
                       /\ inst'[owner[t]].pc \in {"TimedOut", "Aborted"} =>
                              status'[t] \in {"TIMED_OUT", "ABORTED"}]_vars

\* C15 witness: a seeder was told that a task is ABORTED while the other
\* task has timed out.
C15_Witness ==
    /\ seen = [task |-> "t1", status |-> "ABORTED"]
    /\ status["t1"] = "ABORTED"
    /\ status["t2"] = "TIMED_OUT"

C17_CredentialErrorIsFatal ==
    [][/\ \A i \in Instances :
            /\ (inst'[i].err = "CredentialError" /\ inst[i].err # "CredentialError")
                   => /\ At(i, "InvokeUpsertTwitterAccount")
                      /\ inst'[i].pc = "Failed"
                      /\ inst'[i].task = inst[i].task
                      /\ status'[inst[i].task] = "failed"
                      /\ cause'[inst[i].task] = "CredentialError"
                      /\ UNCHANGED <<graph, range, asked>>
            /\ inst[i].pc = "Failed" => inst'[i] = inst[i]
       /\ \A t \in Tasks :
            (status[t] = "failed" /\ cause[t] = "CredentialError")
                => /\ status'[t] = "failed" /\ cause'[t] = "CredentialError"
                   /\ \A i \in Instances : inst'[i].task = t => ~Alive(i)'
                   /\ (\A u \in Tasks \ {t} : status[u] \notin {"processing"})
                          => UNCHANGED <<graph, range, asked>>]_vars

\* C17 witness: a task of two accounts failed with CredentialError at its
\* first account; nothing was written for either account.
C17_Witness ==
    \E i \in Instances :
        /\ inst[i].pc = "Failed"
        /\ inst[i].err = "CredentialError"
        /\ inst[i].task = "t1"
        /\ Len(accountIds["t1"]) = 2
        /\ status["t1"] = "failed"
        /\ cause["t1"] = "CredentialError"
        /\ graph = EmptyGraph
        /\ range = [a \in Accounts |-> UnsetRange]
        /\ tip > 1

C19_OnlyLegalMutators ==
    [][LET c == answer'
           r == range[c.account]
       IN /\ c.op \in {"extendOlder", "extendNewer"}
          /\ c.error \in {"none", "InvariantViolation"}
          /\ \A a \in Accounts \ {c.account} : range'[a] = range[a]
          /\ c.op = "extendOlder"
                 => IF r.oldest = 0 \/ c.boundary < r.oldest
                    THEN /\ c.error = "none"
                         /\ range'[c.account] = [oldest |-> c.boundary, newest |-> r.newest]
                    ELSE /\ c.error = "InvariantViolation"
                         /\ range' = range
          /\ c.op = "extendNewer"
                 => IF r.newest = 0 \/ c.boundary > r.newest
                    THEN /\ c.error = "none"
                         /\ range'[c.account] = [oldest |-> r.oldest, newest |-> c.boundary]
                    ELSE /\ c.error = "InvariantViolation"
                         /\ range' = range
          /\ range' # range => c.error = "none"]_vars

\* C19 witness: the older boundary of a2 was set to 2 from unset, and the
\* call extendOlder(a2, 4) failed and left it there.
C19_Witness ==
    /\ answer = [op |-> "extendOlder", account |-> "a2", boundary |-> 4,
                 error |-> "InvariantViolation"]
    /\ range["a2"] = [oldest |-> 2, newest |-> 0]
    /\ range["a1"] = [oldest |-> 1, newest |-> 5]

\* The step in which instance i finishes the indexing of a non-empty page.
PageIndexed(i) ==
    /\ At(i, "InvokeIndexTweetsFromAccount")
    /\ inst[i].phase = "written"
    /\ inst[i].page # {}
    /\ inst'[i].pc = "Running"
    /\ inst'[i].step = "InvokeIndexFollowing"

\* C20: when the indexing of a non-empty page succeeds, the stored range of
\* the account covers the page: nothing was indexed before, then the range
\* becomes the smallest and the largest tweet ID of the page; a page in the
\* newer direction raises the newer boundary to the largest ID of the page
\* and leaves the older one; a page in the older direction lowers the older
\* boundary to the smallest ID of the page and leaves the newer one.
C20_RangeCoversPage ==
    [][\A i \in Instances :
          PageIndexed(i) =>
              LET a == Account(i)
                  page == inst[i].page
                  r == range[a]
              IN /\ \A p \in page : range'[a].oldest <= p /\ p <= range'[a].newest
                 /\ inst[i].dir \in {"latest", "newer", "older"}
                 /\ inst[i].dir = "latest"
                        => range'[a] = [oldest |-> Min(page), newest |-> Max(page)]
                 /\ inst[i].dir = "newer"
                        => /\ range'[a] = [oldest |-> r.oldest, newest |-> Max(page)]
                           /\ Max(page) > r.newest
                 /\ inst[i].dir = "older"
                        => /\ range'[a] = [oldest |-> Min(page), newest |-> r.newest]
                           /\ Min(page) < r.oldest
                 /\ \A b \in Accounts \ {a} : range'[b] = range[b]]_vars

\* C20 witness: the latest page of a1, tweets 2 and 4, made the range 2..4,
\* and a page in the newer direction, tweet 5, made it 2..5.
C20_Witness ==
    \E i \in Instances :
        /\ At(i, "InvokeIndexFollowing")
        /\ Account(i) = "a1"
        /\ range["a1"] = [oldest |-> 2, newest |-> 5]
        /\ asked["a1"] = [older |-> 2, newer |-> 5]

\* What the chunks instance i has written make of the graph it started on.
Applied(i) ==
    bulkWrites(inst[i].start, SubSeq(Jobs(inst[i].batch), 1, inst[i].job - 1),
               inst[i].version)

\* C21: once every chunk of a batch is written, the graph is the one that
\* writing the whole batch as single chunks (users, referenced tweets, tweets)
\* makes of the starting graph: same nodes, same properties, same
\* relationships.
C21_ChunkingEquivalence ==
    \A i \in Instances :
        inst[i].phase = "written"
            => graph = bulkWrite(inst[i].start, Range(inst[i].batch), inst[i].version)

\* C21 witness: three tweets were written as chunks of two and one into a
\* graph that already held tweet 1 at an older snapshot.
C21_Witness ==
    /\ inst[1].phase = "written"
    /\ inst[1].batch = <<5, 1, 4>>
    /\ inst[1].version = 2
    /\ Len(Jobs(inst[1].batch)) = 4
    /\ inst[1].start = bulkWrite(EmptyGraph, {1}, 1)
    /\ graph.props[<<"Tweet", 1>>] = 2
    /\ graph.nodes[<<"Tweet", 4>>] = 1

\* C22: when a batch holds a tweet P and the tweet Q it references, then in
\* whatever order the two arrive, the graph never holds more than one Tweet
\* node for Q or more than one REFERENCED relationship from P to Q, and once
\* the batch is written it holds exactly one of each.
C22_ReferencedInSameBatch ==
    \A i \in Instances :
        \A P \in Range(inst[i].batch) :
            LET Q == Referenced(P)
            IN (Q # 0 /\ Q \in Range(inst[i].batch))
                   => /\ graph.nodes[<<"Tweet", Q>>] <= 1
                      /\ graph.rels[<<"REFERENCED", P, Q>>] <= 1
                      /\ inst[i].phase = "written"
                             => /\ graph.nodes[<<"Tweet", Q>>] = 1
                                /\ graph.nodes[<<"Tweet", P>>] = 1
                                /\ graph.rels[<<"REFERENCED", P, Q>>] = 1
                                /\ graph.rels[<<"POSTED", Author(Q), Q>>] = 1

\* C22 witness: tweet 4, which references tweet 2, arrived first and was
\* written a chunk before tweet 2, into an empty graph.
C22_Witness ==
    /\ inst[1].phase = "written"
    /\ inst[1].batch = <<4, 1, 2>>
    /\ inst[1].start = EmptyGraph
    /\ graph.nodes[<<"Tweet", 2>>] = 1
    /\ graph.rels[<<"REFERENCED", 4, 2>>] = 1

\* The instance has written something of its batch.
HasWritten(i) == inst[i].job > 1
NodesOfBatch(i) ==
    {<<"Account", a>> : a \in Range(UsersIn(inst[i].batch))}
        \cup {<<"Tweet", p>> : p \in Range(inst[i].batch) \cup Range(ReferencedIn(inst[i].batch))}

\* C23 as stated: the relationships come last, after every node of the
\* batch: a graph that holds a relationship the starting graph did not hold
\* holds every node of the batch.
C23_Original ==
    \A i \in Instances :
        (HasWritten(i) /\ graph.rels # inst[i].start.rels)
            => \A k \in NodesOfBatch(i) : graph.nodes[k] >= 1

\* C23: the chunks of the users come first, then those of the referenced
\* tweets, then those of the tweets, each write adding its nodes and their
\* relationships; after the chunks of the users every user of the batch is
\* in the graph, after those of the referenced tweets every referenced
\* tweet; and in every state, between chunks and after a failed write as
\* well, both end nodes of every relationship are in the graph.
C23_NoDanglingEdge ==
    /\ \A k \in RelKeys :
           graph.rels[k] >= 1 => \A n \in EndNodes(k) : graph.nodes[n] >= 1
    /\ \A i \in Instances :
           LET users == NumChunks(UsersIn(inst[i].batch))
               refs == NumChunks(ReferencedIn(inst[i].batch))
               jobs == Jobs(inst[i].batch)
           IN /\ \A m, n \in DOMAIN jobs :
                    (jobs[m].write = "addUsers" /\ jobs[n].write = "addTweetsFrom") => m < n
              /\ inst[i].job > users
                     => \A a \in Range(UsersIn(inst[i].batch)) :
                            graph.nodes[<<"Account", a>>] >= 1
              /\ inst[i].job > users + refs
                     => \A q \in Range(ReferencedIn(inst[i].batch)) :
                            graph.nodes[<<"Tweet", q>>] >= 1

\* C23 witness: the users, the referenced tweets and the first chunk of
\* tweets are written into an empty graph and the write of the second chunk
\* failed once: tweet 4 and its relationship to tweet 2 are in the graph,
\* tweet 1 is not yet.
C23_Witness ==
    /\ inst[1].batch = <<4, 5, 1>>
    /\ inst[1].start = EmptyGraph
    /\ inst[1].job = 4
    /\ inst[1].tries = 1
    /\ graph.rels[<<"REFERENCED", 4, 2>>] = 1
    /\ graph.nodes[<<"Tweet", 2>>] = 1
    /\ graph.nodes[<<"Tweet", 1>>] = 0
    /\ graph.rels[<<"POSTED", "a2", 3>>] = 1

Then(g, i) == bulkWrite(g, Range(inst[i].batch), inst[i].version)
BothWritten == inst[1].phase = "written" /\ inst[2].phase = "written"

\* C28 as stated: however the chunks of two batches interleave, the graph
\* in the end is the graph of the one batch written after the other, in
\* either order, properties included.
C28_Original ==
    BothWritten
        => /\ graph = Then(Then(inst[1].start, 1), 2)
           /\ graph = Then(Then(inst[1].start, 2), 1)

\* C28: however the chunks of two batches interleave, the graph in the end
\* has the nodes and the relationships of the one batch written after the
\* other, in either order, and no duplicate; a node only one batch wrote has
\* the properties of that batch, and a node both wrote has the properties
\* of one of them, the one whose chunk came last; with the same snapshot in
\* both batches the whole graph is that of either order.
C28_UpsertsCommute ==
    /\ NoDuplicates(graph)
    /\ BothWritten
        => LET s12 == Then(Then(inst[1].start, 1), 2)
               s21 == Then(Then(inst[1].start, 2), 1)
           IN /\ graph.nodes = s12.nodes /\ graph.nodes = s21.nodes
              /\ graph.rels = s12.rels /\ graph.rels = s21.rels
              /\ \A k \in NodeKeys :
                    graph.props[k] \in
                        {inst[i].version : i \in {j \in {1, 2} : k \in NodesOfBatch(j)}}
                            \cup {p \in {inst[1].start.props[k]} :
                                     k \notin NodesOfBatch(1) \cup NodesOfBatch(2)}
              /\ inst[1].version = inst[2].version => graph = s12 /\ graph = s21

\* C28 witness: both instances wrote tweet 4, the first from the older
\* snapshot; the chunk of users of the second came last and so did the
\* chunk of tweets of the first: the account has the newer properties, the
\* tweet the older ones.
C28_Witness ==
    /\ BothWritten
    /\ inst[1].batch = <<4>> /\ inst[1].version = 1
    /\ inst[2].batch = <<4, 5>> /\ inst[2].version = 2
    /\ graph.props[<<"Account", "a1">>] = 2
    /\ graph.props[<<"Tweet", 4>>] = 1
    /\ graph.props[<<"Tweet", 5>>] = 2

\* Every tweet of account a inside its stored range is in the graph.
Covered(a) ==
    /\ \A p \in TweetsOf(a, tip) :
           (range[a].oldest <= p /\ p <= range[a].newest)
               => /\ graph.nodes[<<"Tweet", p>>] >= 1
                  /\ graph.rels[<<"POSTED", a, p>>] >= 1
    /\ range[a] # UnsetRange
           => /\ range[a].oldest \in TweetsOf(a, tip)
              /\ range[a].newest \in TweetsOf(a, tip)

\* C29: the range of an account changes only in the step of an instance
\* that has pushed its page for that account, every tweet of the page being
\* in the graph; so in every state, after a rate limit wait, a failed write
\* or a failed task as well, every tweet of the account inside the stored
\* range is in the graph with its POSTED relationship, and a range that is
\* set has tweets of the account in the graph as its boundaries.
C29_RangeAfterUpsert ==
    [][\A a \in Accounts :
          /\ range'[a] # range[a]
                 => \E i \in Instances :
                        /\ At(i, "InvokeIndexTweetsFromAccount")
                        /\ inst[i].phase = "written"
                        /\ Account(i) = a
                        /\ inst[i].page # {}
                        /\ \A p \in inst[i].page : graph.nodes[<<"Tweet", p>>] >= 1
          /\ Covered(a)'
          /\ Covered(a)]_vars

\* C29 witness: the first task indexed tweets 4 and 5 of a1 (and the tweets
\* 2 and 3 they reference); the second pulled the older page {1, 2}, its
\* write failed for good before tweet 1 was written, and the range still
\* begins at tweet 4.
C29_Witness ==
    /\ status["t1"] = "done"
    /\ status["t2"] = "failed"
    /\ cause["t2"] = "StoreWriteError"
    /\ range["a1"] = [oldest |-> 4, newest |-> 5]
    /\ graph.nodes[<<"Tweet", 1>>] = 0
    /\ \A p \in {2, 3, 4, 5} : graph.nodes[<<"Tweet", p>>] = 1

\* The chain of the workflow as pairs of a state and the one after it; after
\* the last state the instance starts the chain of the next account.
ChainOrder ==
    {<<"InvokeUpsertTwitterAccount", "InvokeAddSeedAccountToStream">>,
     <<"InvokeAddSeedAccountToStream", "InvokeIndexTweetsFromAccount">>,
     <<"InvokeIndexTweetsFromAccount", "InvokeIndexFollowing">>,
     <<"InvokeIndexFollowing", "InvokeUpsertTwitterAccount">>}

\* C30: an execution starts at InvokeUpsertTwitterAccount and moves from a
\* state only to the one after it in the chain, and only by a step of that
\* state that raised no error.  A RateLimitError raised by
\* InvokeIndexFollowing with a reset timestamp makes the instance wait for
\* that timestamp, and a waiting instance is always one of
\* InvokeIndexFollowing that resumes at that state with the same task and
\* account, every time the error recurs.  Any other error, and any error of
\* the three earlier states, ends the instance as failed at the state that
\* raised it, with that error (the failure of the rate limit handler itself
\* arises only at InvokeIndexFollowing), and a failed instance never steps
\* again.
C30_WorkflowOrder ==
    [][\A i \in Instances :
          LET r == inst[i]
              n == inst'[i]
          IN /\ (r.pc = "Idle" /\ n.pc = "Running")
                    => n.step = "InvokeUpsertTwitterAccount"
             /\ (r.pc \in {"Running", "Waiting"} /\ n.pc \in {"Running", "Waiting"}
                    /\ n.step # r.step)
                    => /\ r.pc = "Running" /\ n.pc = "Running"
                       /\ r.err = "none" /\ n.err = "none"
                       /\ <<r.step, n.step>> \in ChainOrder
                       /\ n.task = r.task
             /\ (At(i, "InvokeIndexFollowing") /\ n.err = "RateLimitError")
                    => /\ n.pc = "Waiting"
                       /\ n.remaining \in 0..MaxReset
                       /\ n.step = r.step /\ n.task = r.task /\ n.idx = r.idx
             /\ r.pc = "Waiting"
                    => /\ r.step = "InvokeIndexFollowing"
                       /\ r.err = "RateLimitError"
                       /\ n.pc \in {"Running", "Waiting"}
                              => /\ n.step = r.step /\ n.task = r.task /\ n.idx = r.idx
                                 /\ accountIds'[n.task][n.idx] = accountIds[r.task][r.idx]
                                 /\ n.pc = "Running" => r.remaining = 0
             /\ (/\ r.pc = "Running"
                 /\ n.err # "none"
                 /\ ~(r.step = "InvokeIndexFollowing" /\ n.err = "RateLimitError"))
                    => /\ n.pc = "Failed"
                       /\ n.step = r.step /\ n.task = r.task
                       /\ n.err = "States.Runtime" => r.step = "InvokeIndexFollowing"
                       /\ owner[r.task] = i
                              => /\ status'[r.task] = "failed"
                                 /\ cause'[r.task] = n.err
             /\ r.pc = "Failed" => n = r]_vars

\* C30 witness: one instance is about to invoke InvokeIndexFollowing for the
\* third time, the rate limit having struck twice, still on the first account
\* of its task; the other ended as failed at InvokeAddSeedAccountToStream and
\* its task is failed with the error of that state.
C30_Witness ==
    /\ At(1, "InvokeIndexFollowing")
    /\ inst[1].waits = 2
    /\ inst[1].idx = 1
    /\ status[inst[1].task] = "processing"
    /\ inst[2].pc = "Failed"
    /\ inst[2].step = "InvokeAddSeedAccountToStream"
    /\ inst[2].err = "TransientError"
    /\ status[inst[2].task] = "failed"
    /\ cause[inst[2].task] = "TransientError"
====
